---- MODULE Spec2Model ----
(***************************************************************************)
(* Model of the Todonna synchronisation layer of smart-advisor:           *)
(*   src/lib/remotestorage-todonna.ts  (the full module, impl = "ts")     *)
(*   src/app/api/ai-proxy/route.js     (the lightweight module, "js")     *)
(* over a remote object store that is read through a local cache.         *)
(*                                                                         *)
(* Every JavaScript value is a string here: a missing key is Absent, a    *)
(* key that is present with the value undefined is Undef.                 *)
(***************************************************************************)
EXTENDS Integers, Sequences, FiniteSets, TLC

\* ---------------------------------------------------------------- bounds
NumIds == 2
MaxLen == 2
MaxOps == 2
MaxForeign == 1
MaxConnects == 2
MaxMutations == 2
MaxReloads == 2
MaxNotes == 2
MaxCalls == 2

\* ------------------------------------------------------------ JS values
Absent == "absent"
Undef == "undef"
Ids == {ToString(i) : i \in 1..NumIds}

Def(v) == v # Absent /\ v # Undef
Truthy(v) == v \notin {Absent, Undef, "", "false"}

\* JSON serialisation drops the keys whose value is undefined
Json(v) == IF v = Undef THEN Absent ELSE v

\* Date.prototype.toISOString and new Date(isoString); "Dnow" is new Date()
toISOString(d) == CASE d = "D1" -> "iso1" [] d = "D2" -> "iso2" [] d = "Dnow" -> "isonow" [] OTHER -> d
NewDate(s) == CASE s = "iso1" -> "D1" [] s = "iso2" -> "D2" [] s = "isonow" -> "Dnow" [] OTHER -> s
IsDateObject(d) == d \in {"D1", "D2", "Dnow"}

\* Date.prototype.toDateString, the local calendar day of an instant: "D1b"
\* is a later instant of the day of "D1"
toDateString(d) ==
  CASE d \in {"D1", "D1b"} -> "day1" [] d = "D2" -> "day2" [] d = "Dnow" -> "today" [] OTHER -> "Invalid Date"

\* a TodoItem with no optional key
BlankTodo == [id |-> Absent, text |-> Absent, completed |-> Absent, todo_item_status |-> Absent,
              emoji |-> Absent, date |-> Absent, time |-> Absent, removed |-> Absent]

\* a stored object with no key at all
BlankItem == [todo_item_id |-> Absent, todo_item_text |-> Absent, todo_item_status |-> Absent,
              emoji |-> Absent, date |-> Absent, time |-> Absent, removed |-> Absent,
              completed |-> Absent]

\* -------------------------------------------------- codec of the ts module
toTodonnaItem(todo) ==
  [BlankItem EXCEPT
     !.todo_item_id = Json(todo.id),
     !.todo_item_text = Json(todo.text),
     !.todo_item_status =
        IF Def(todo.completed)
          THEN (IF Truthy(todo.completed) THEN "done" ELSE "pending")
          ELSE IF Def(todo.todo_item_status) THEN todo.todo_item_status ELSE Absent,
     !.emoji = IF Def(todo.emoji) /\ todo.emoji # "" THEN todo.emoji ELSE Absent,
     !.date = IF Def(todo.date)
                THEN (IF IsDateObject(todo.date) THEN toISOString(todo.date) ELSE todo.date)
                ELSE Absent,
     !.time = IF Def(todo.time) /\ todo.time # "" THEN todo.time ELSE Absent]

fromTodonnaItem(id, item) ==
  LET completed == IF Truthy(item.todo_item_status)
                     THEN item.todo_item_status = "done"
                     ELSE item.completed = "true"
  IN [BlankTodo EXCEPT
        !.id = IF Truthy(item.todo_item_id) THEN item.todo_item_id ELSE id,
        !.text = IF item.todo_item_text = Absent THEN Undef ELSE item.todo_item_text,
        !.todo_item_status = IF completed THEN "done" ELSE "pending",
        !.emoji = IF item.emoji = Absent THEN Undef ELSE item.emoji,
        !.date = IF Truthy(item.date) THEN NewDate(item.date) ELSE "Dnow",
        !.time = IF item.time = Absent THEN Undef ELSE item.time,
        !.removed = "false"]

\* -------------------------------------------------- codec of the js module
toStorage(todo) ==
  [BlankItem EXCEPT
     !.todo_item_id = Json(todo.id),
     !.todo_item_text = Json(todo.text),
     !.todo_item_status =
        IF Truthy(todo.todo_item_status) THEN todo.todo_item_status
        ELSE IF Truthy(todo.completed) THEN "done" ELSE "pending",
     !.emoji = Json(todo.emoji),
     !.date = IF Truthy(todo.date) THEN toISOString(NewDate(todo.date)) ELSE Absent,
     !.time = Json(todo.time),
     !.removed = IF Truthy(todo.removed) THEN todo.removed ELSE "false"]

fromStorage(id, stored) ==
  [BlankTodo EXCEPT
     !.id = IF Truthy(stored.todo_item_id) THEN stored.todo_item_id ELSE id,
     !.text = IF stored.todo_item_text = Absent THEN Undef ELSE stored.todo_item_text,
     !.todo_item_status = IF Truthy(stored.todo_item_status) THEN stored.todo_item_status ELSE "pending",
     !.emoji = IF stored.emoji = Absent THEN Undef ELSE stored.emoji,
     !.date = IF stored.date = Absent THEN Undef ELSE stored.date,
     !.time = IF stored.time = Absent THEN Undef ELSE stored.time,
     !.removed = IF Truthy(stored.removed) THEN stored.removed ELSE "false"]

\* { ...current, ...updates, id }: a key of updates, even one that is
\* undefined, replaces the key of current; id is set last
Spread(current, updates) ==
  [f \in DOMAIN current |-> IF updates[f] # Absent THEN updates[f] ELSE current[f]]

\* the spread with id before the updates: an id among the updates survives
MergeUpdateIdFirst(current, updates, id) == Spread([current EXCEPT !.id = id], updates)

MergeUpdate(current, updates, id) == [Spread(current, updates) EXCEPT !.id = id]


\* ------------------------------------------------------------ the inputs
T1 == [BlankTodo EXCEPT !.text = "t1", !.completed = "false", !.date = "D1"]
T2 == [BlankTodo EXCEPT !.text = "t2", !.completed = "true", !.emoji = "e1", !.date = "D1"]
T3 == [BlankTodo EXCEPT !.text = "t1", !.todo_item_status = "archived"]
Shapes == {T1, T2, T3}
Todos == {[t EXCEPT !.id = i] : t \in Shapes, i \in Ids}

Partials ==
  {[BlankTodo EXCEPT !.completed = "true"], [BlankTodo EXCEPT !.removed = "true"]}
    \cup {[BlankTodo EXCEPT !.id = j, !.text = "t2"] : j \in Ids}

SeqsUpTo(S, n) == UNION {[1..m -> S] : m \in 0..n}
Item(id, todo) == [id |-> id, todo |-> todo]
AddItems == {Item(t.id, t) : t \in Todos}
UpdateItems == {Item(i, p) : i \in Ids, p \in Partials}
RemoveItems == {Item(i, BlankTodo) : i \in Ids}

\* objects another device can leave in the store: one written by this layer,
\* a legacy one without todo_item_id, and one without the required text
ForeignObjects(k) ==
  { toStorage([T2 EXCEPT !.id = k, !.removed = "true"]),
    [BlankItem EXCEPT !.todo_item_text = "t1", !.completed = "true"],
    [BlankItem EXCEPT !.emoji = "e2"] }

\* ------------------------------------------------------------- the state
VARIABLES
  impl,     \* which module the client loaded: "ts" or "js"
  remote,   \* the remote store of the scope: key -> stored object
  cache,    \* the local cached copy of the scope
  foreign,  \* number of writes other devices made to the remote store
  ops,      \* number of calls made to the module
  call,     \* the call of the module that is running, or the last one
  run,      \* the batch loops of the running call
  oplog,    \* the store operations the running call issued, in order
  procs,    \* the calls a caller made without awaiting the one before
  ui        \* the useData hook: connection, saving guard, snapshots, reloads

vars == <<impl, remote, cache, foreign, ops, call, run, oplog, procs, ui>>

Runners == {"add", "update", "remove"}
ZeroResult == [succeeded |-> 0, failed |-> 0, errors |-> << >>]

IdleCall ==
  [op |-> "none", phase |-> "idle", id |-> Absent, arg |-> BlankTodo, base |-> << >>,
   outcome |-> "none", todos |-> << >>, existing |-> << >>, snapFailed |-> FALSE,
   read |-> << >>, remoteAtRead |-> << >>, result |-> ZeroResult,
   includeRemoved |-> FALSE, date |-> Absent, fetch |-> "none", fetched |-> << >>,
   before |-> << >>]

OffRunner ==
  [on |-> FALSE, items |-> << >>, i |-> 1, inflight |-> {}, res |-> ZeroResult,
   stopped |-> FALSE, stopOnError |-> FALSE, onProgress |-> "none", opFailedAt |-> 0,
   progress |-> << >>]

AllOff == [r \in Runners |-> OffRunner]

\* --------------------------------------------------- the store primitive
Store(s, k, obj) == [x \in DOMAIN s \cup {k} |-> IF x = k THEN obj ELSE s[x]]
Erase(s, k) == [x \in DOMAIN s \ {k} |-> s[x]]
Lookup(s, k) == IF k \in DOMAIN s THEN <<s[k]>> ELSE << >>

\* a read that accepts no cached copy (maxAge = 0) is served by the remote
\* store; any other maxAge may be served by the cached copy
ReadSources(maxAge) == IF maxAge = "0" THEN {"remote"} ELSE {"remote", "cache"}
ReadFrom(src, k) == IF src = "remote" THEN Lookup(remote, k) ELSE Lookup(cache, k)
Refreshed(c, k) == IF k \in DOMAIN remote THEN Store(c, k, remote[k]) ELSE Erase(c, k)
CacheAfterRead(src, k) == IF src = "remote" THEN Refreshed(cache, k) ELSE cache

\* ------------------------------------------------------ the useData hook
\* the scopes loadAllData loads, in the order of its awaits
Loaders == <<"itemsList", "settings", "todos", "stock", "aiConfig">>
Scopes == {Loaders[k] : k \in 1..Len(Loaders)}

\* the mutations of the hook and the scope each one writes
Mutations == {"saveItem", "deleteItem", "saveSettings", "saveAiConfig"}
ScopeOf(kind) ==
  CASE kind = "saveSettings" -> "settings" [] kind = "saveAiConfig" -> "aiConfig" [] OTHER -> "itemsList"

NoNote == [kind |-> "none", guard |-> FALSE, started |-> 0, connected |-> FALSE]

\* useState / useRef initial values; the store holds "v0" in every scope
InitUi ==
  [connected |-> FALSE, connects |-> 0, handlers |-> 0, guard |-> FALSE, timers |-> 0,
   isLoading |-> TRUE,
   store |-> [s \in Scopes |-> "v0"],
   cached |-> [s \in Scopes |-> "init"],
   muts |-> << >>, reloads |-> << >>,
   inbox |-> {}, changes |-> 0, notes |-> 0, last |-> NoNote]

\* a call of loadAllData, which runs up to its first await: origin says who
\* called it (the connection effect, a change handler or the catch of
\* mutation owner), cause which notification the handler got; next is the
\* loader it awaits and val the answer that is on its way
NewReload(u, origin, cause, owner) ==
  [origin |-> origin, cause |-> cause, owner |-> owner, next |-> 1,
   val |-> u.store[Loaders[1]], invoked |-> {Loaders[1]}, updated |-> {},
   offline |-> ~u.connected, failed |-> "none", done |-> FALSE]

\* a call of a mutation, from its isSavingRef.current = true on
NewMutation(kind) ==
  [kind |-> kind, pc |-> "write", outcome |-> "none", wrote |-> FALSE, listed |-> FALSE,
   reload |-> 0, rejected |-> FALSE, guardAtStart |-> FALSE, present |-> TRUE]

LogEntry(r, idx, kind, key, maxAge) ==
  [r |-> r, idx |-> idx, kind |-> kind, key |-> key, maxAge |-> maxAge]

Init ==
  /\ impl \in {"ts", "js"}
  /\ remote = << >>
  /\ cache = << >>
  /\ foreign = 0
  /\ ops = 0
  /\ call = IdleCall
  /\ run = AllOff
  /\ oplog = << >>
  /\ procs = << >>
  /\ ui = InitUi

\* the caller awaits each call of the module before it makes the next one
CanStart == call.phase = "idle" /\ ops < MaxOps

\* a call that only reads can be made whenever no call is running
CanRead == call.phase = "idle"

\* the awaited call has settled and the caller goes on to its next call
NextCall ==
  /\ call.phase = "done"
  /\ call' = IdleCall
  /\ run' = AllOff
  /\ oplog' = << >>
  /\ UNCHANGED <<ui, procs, impl, remote, cache, foreign, ops>>

Encode(todo) == IF impl = "ts" THEN toTodonnaItem(todo) ELSE toStorage(todo)

\* add(todo): encode and store at key todo.id
Add ==
  /\ CanStart
  /\ \E todo \in Todos, ok \in BOOLEAN :
    /\ ops' = ops + 1
    /\ run' = AllOff
    /\ oplog' = <<LogEntry("call", 0, "storeObject", todo.id, Absent)>>
    /\ remote' = IF ok THEN Store(remote, todo.id, Encode(todo)) ELSE remote
    /\ cache' = IF ok THEN Store(cache, todo.id, Encode(todo)) ELSE cache
    /\ call' = [IdleCall EXCEPT !.op = "add", !.phase = "done", !.id = todo.id, !.arg = todo,
                                !.outcome = IF ok THEN "ok" ELSE "error"]
    /\ UNCHANGED <<ui, procs, impl, foreign>>

\* another device stores or removes an object of the scope
RemoteChange ==
  /\ foreign < MaxForeign
  /\ foreign' = foreign + 1
  /\ \E k \in Ids :
       \/ \E obj \in ForeignObjects(k) : remote' = Store(remote, k, obj)
       \/ k \in DOMAIN remote /\ remote' = Erase(remote, k)
  /\ UNCHANGED <<ui, procs, impl, cache, ops, call, run, oplog>>


\* the maxAge update passes to its read: the ts module reads with 0, the js
\* module calls this.get(id), which passes no maxAge
UpdateMaxAge == IF impl = "ts" THEN "0" ELSE Undef

Decode(id, item) == IF impl = "ts" THEN fromTodonnaItem(id, item) ELSE fromStorage(id, item)

\* update(id, updates), up to the end of its read: not found and a failed
\* read end the call without a write
UpdateRead ==
  /\ CanStart
  /\ \E id \in Ids, updates \in Partials, ok \in BOOLEAN, src \in ReadSources(UpdateMaxAge) :
    LET got == ReadFrom(src, id)
        c0 == [IdleCall EXCEPT !.op = "update", !.id = id, !.arg = updates,
                               !.remoteAtRead = Lookup(remote, id)]
        rd == LogEntry("call", 0, "getObject", id, UpdateMaxAge)
    IN /\ ops' = ops + 1
       /\ run' = AllOff
       /\ cache' = IF ok THEN CacheAfterRead(src, id) ELSE cache
       /\ IF ~ok
            THEN /\ call' = [c0 EXCEPT !.phase = "done", !.outcome = "error"]
                 /\ oplog' = <<rd>>
            ELSE IF got = << >>
              THEN /\ call' = [c0 EXCEPT !.phase = "done", !.outcome = "notfound"]
                   /\ oplog' = <<rd>>
              ELSE /\ call' = [c0 EXCEPT !.phase = "write", !.read = got,
                                         !.base = <<Decode(id, got[1])>>]
                   /\ oplog' = <<rd, LogEntry("call", 0, "storeObject", id, Absent)>>
       /\ UNCHANGED <<ui, procs, impl, remote, foreign>>

\* the object update stores: the fetched record, the updates spread over it
UpdatePayload(base, updates, id) == Encode(MergeUpdate(base, updates, id))

\* an update that stores at the id its updates carry
UpdateKeyFromUpdates(id, updates) == IF Def(updates.id) THEN updates.id ELSE id

\* the key update stores at
UpdateKey(id, updates) == id

\* update, from its storeObject to its end
UpdateWrite ==
  /\ call.op = "update" /\ call.phase = "write"
  /\ \E ok \in BOOLEAN :
    LET key == UpdateKey(call.id, call.arg)
        item == UpdatePayload(call.base[1], call.arg, call.id)
    IN /\ remote' = IF ok THEN Store(remote, key, item) ELSE remote
       /\ cache' = IF ok THEN Store(cache, key, item) ELSE cache
       /\ call' = [call EXCEPT !.phase = "done", !.outcome = IF ok THEN "ok" ELSE "error"]
       /\ UNCHANGED <<ui, procs, impl, foreign, ops, run, oplog>>

\* remove(id): hard delete
Remove ==
  /\ CanStart
  /\ \E id \in Ids, ok \in BOOLEAN :
    /\ ops' = ops + 1
    /\ run' = AllOff
    /\ oplog' = <<LogEntry("call", 0, "remove", id, Absent)>>
    /\ remote' = IF ok THEN Erase(remote, id) ELSE remote
    /\ cache' = IF ok THEN Erase(cache, id) ELSE cache
    /\ call' = [IdleCall EXCEPT !.op = "remove", !.phase = "done", !.id = id,
                                !.outcome = IF ok THEN "ok" ELSE "error"]
    /\ UNCHANGED <<ui, procs, impl, foreign>>


\* ------------------------------------------------------ batch operations
\* onProgress is either not given or a callback of the caller, which may throw
Options == [stopOnError : BOOLEAN, onProgress : {"none", "given"}]

StartRunner(items, opts) ==
  [OffRunner EXCEPT !.on = TRUE, !.items = items,
                    !.stopOnError = opts.stopOnError, !.onProgress = opts.onProgress]

BatchItems(r) == CASE r = "add" -> AddItems [] r = "update" -> UpdateItems [] OTHER -> RemoveItems
BatchOp(r) == CASE r = "add" -> "batchAdd" [] r = "update" -> "batchUpdate" [] OTHER -> "batchRemove"

\* batchAdd / batchUpdate / batchRemove(items, options): the call, up to its loop
BatchStart ==
  /\ CanStart
  /\ impl = "ts"
  /\ \E r \in Runners, opts \in Options :
    \E items \in SeqsUpTo(BatchItems(r), MaxLen) :
      /\ ops' = ops + 1
      /\ call' = [IdleCall EXCEPT !.op = BatchOp(r), !.phase = "run"]
      /\ run' = [AllOff EXCEPT ![r] = StartRunner(items, opts)]
      /\ oplog' = << >>
      /\ UNCHANGED <<ui, procs, impl, remote, cache, foreign>>

\* a loop that starts every remaining item without awaiting the one before
CanIssueUnawaited(rr) == rr.on /\ ~rr.stopped /\ rr.i <= Len(rr.items)

\* the loop takes its next item when the await of the one before has returned
CanIssue(rr) == rr.on /\ ~rr.stopped /\ rr.inflight = {} /\ rr.i <= Len(rr.items)

\* the loop has left its last iteration
LoopEnded(rr) == rr.on /\ rr.inflight = {} /\ (rr.stopped \/ rr.i > Len(rr.items))

FirstKind(r) == CASE r = "add" -> "storeObject" [] r = "update" -> "getObject" [] OTHER -> "remove"
FirstMaxAge(r) == IF r = "update" THEN UpdateMaxAge ELSE Absent

\* one iteration's call of add / update / remove issues its store operation
BatchIssue ==
  \E r \in Runners :
    LET rr == run[r] IN
      /\ CanIssue(rr)
      /\ run' = [run EXCEPT ![r] = [rr EXCEPT !.i = @ + 1,
                                              !.inflight = @ \cup {[idx |-> rr.i, phase |-> "first", base |-> << >>]}]]
      /\ oplog' = Append(oplog, LogEntry(r, rr.i, FirstKind(r), rr.items[rr.i].id, FirstMaxAge(r)))
      /\ UNCHANGED <<ui, procs, impl, remote, cache, foreign, ops, call>>

\* the catch block without its break on stopOnError
AfterItemNoBreak(rr, e, opOk, cbThrows) ==
  LET id == rr.items[e.idx].id
      r1 == IF opOk THEN [rr EXCEPT !.res.succeeded = @ + 1] ELSE rr
      r2 == IF ~opOk \/ cbThrows
              THEN [r1 EXCEPT !.res.failed = @ + 1, !.res.errors = Append(@, id)]
              ELSE r1
  IN [r2 EXCEPT !.inflight = @ \ {e},
                !.opFailedAt = IF ~opOk /\ @ = 0 THEN e.idx ELSE @,
                !.progress = IF opOk /\ rr.onProgress = "given"
                               THEN Append(@, <<e.idx, Len(rr.items)>>) ELSE @]

\* the rest of an iteration once its awaited operation has settled: the item
\* counts as succeeded when the operation returned, onProgress(i + 1, length)
\* is then called inside the same try, and whatever is thrown is caught and
\* counted as failed
AfterItem(rr, e, opOk, cbThrows) ==
  LET id == rr.items[e.idx].id
      r1 == IF opOk THEN [rr EXCEPT !.res.succeeded = @ + 1] ELSE rr
      r2 == IF ~opOk \/ cbThrows
              THEN [r1 EXCEPT !.res.failed = @ + 1,
                              !.res.errors = Append(@, id),
                              !.stopped = rr.stopOnError]
              ELSE r1
  IN [r2 EXCEPT !.inflight = @ \ {e},
                !.opFailedAt = IF ~opOk /\ @ = 0 THEN e.idx ELSE @,
                !.progress = IF opOk /\ rr.onProgress = "given"
                               THEN Append(@, <<e.idx, Len(rr.items)>>) ELSE @]

\* what onProgress may do when it is called after a successful item
CallbackThrows(rr, opOk) == IF opOk /\ rr.onProgress = "given" THEN BOOLEAN ELSE {FALSE}

\* the store operation of an add or remove iteration settles
BatchSettle ==
  \E r \in {"add", "remove"} :
    \E e \in run[r].inflight, ok \in BOOLEAN :
      \E cb \in CallbackThrows(run[r], ok) :
        LET item == run[r].items[e.idx]
            after(s) == IF ~ok THEN s
                        ELSE IF r = "add" THEN Store(s, item.id, Encode(item.todo))
                        ELSE Erase(s, item.id)
        IN /\ remote' = after(remote)
           /\ cache' = after(cache)
           /\ run' = [run EXCEPT ![r] = AfterItem(run[r], e, ok, cb)]
           /\ UNCHANGED <<ui, procs, impl, foreign, ops, call, oplog>>

\* the getObject of an update iteration settles: not found and a failed read
\* throw, otherwise update goes on to its storeObject
BatchUpdateRead ==
  \E e \in run["update"].inflight, ok \in BOOLEAN, src \in ReadSources(UpdateMaxAge) :
    LET rr == run["update"]
        item == rr.items[e.idx]
        got == ReadFrom(src, item.id)
    IN /\ e.phase = "first"
       /\ cache' = IF ok THEN CacheAfterRead(src, item.id) ELSE cache
       /\ IF ok /\ got # << >>
            THEN /\ run' = [run EXCEPT !["update"].inflight =
                              (@ \ {e}) \cup {[e EXCEPT !.phase = "write", !.base = <<Decode(item.id, got[1])>>]}]
                 /\ oplog' = Append(oplog, LogEntry("update", e.idx, "storeObject", item.id, Absent))
            ELSE /\ run' = [run EXCEPT !["update"] = AfterItem(rr, e, FALSE, FALSE)]
                 /\ oplog' = oplog
       /\ UNCHANGED <<ui, procs, impl, remote, foreign, ops, call>>

\* the storeObject of an update iteration settles
BatchUpdateWrite ==
  \E e \in run["update"].inflight, ok \in BOOLEAN :
    \E cb \in CallbackThrows(run["update"], ok) :
      LET rr == run["update"]
          item == rr.items[e.idx]
          key == UpdateKey(item.id, item.todo)
          obj == UpdatePayload(e.base[1], item.todo, item.id)
      IN /\ e.phase = "write"
         /\ remote' = IF ok THEN Store(remote, key, obj) ELSE remote
         /\ cache' = IF ok THEN Store(cache, key, obj) ELSE cache
         /\ run' = [run EXCEPT !["update"] = AfterItem(rr, e, ok, cb)]
         /\ UNCHANGED <<ui, procs, impl, foreign, ops, call, oplog>>

\* a batch call returns the result of its loop
BatchReturn ==
  \E r \in Runners :
    /\ call.op = BatchOp(r) /\ call.phase = "run"
    /\ LoopEnded(run[r])
    /\ call' = [call EXCEPT !.phase = "done", !.outcome = "ok", !.result = run[r].res]
    /\ UNCHANGED <<ui, procs, impl, remote, cache, foreign, ops, run, oplog>>

\* ------------------------------------------------------------- replaceAll
IdSeq == [i \in 1..NumIds |-> ToString(i)]
FetchOutcomes == {"remote", "cache", "fail"}

\* getAll of the ts module: the listing, one getObject per listed key under
\* Promise.allSettled, a rejected or text-less entry dropped, then the
\* removed filter. srcs[k] says how the getObject of key k settles.
GetAllTs(lsrc, srcs, includeRemoved) ==
  LET listing == DOMAIN (IF lsrc = "remote" THEN remote ELSE cache)
      settled(k) ==
        IF srcs[k] = "fail" THEN << >>
        ELSE LET got == ReadFrom(srcs[k], k)
             IN IF got # << >> /\ got[1].todo_item_text # Absent
                  THEN <<fromTodonnaItem(k, got[1])>> ELSE << >>
      kept(k) == /\ k \in listing
                 /\ settled(k) # << >>
                 /\ (includeRemoved \/ ~Truthy(settled(k)[1].removed))
      keys == SelectSeq(IdSeq, kept)
  IN [j \in 1..Len(keys) |-> settled(keys[j])[1]]

\* the cached copy after getAll fetched what it did not take from the cache
CacheAfterGetAll(lsrc, srcs) ==
  LET listing == DOMAIN (IF lsrc = "remote" THEN remote ELSE cache)
      fresh == {k \in listing : srcs[k] = "remote"}
      keys == ((DOMAIN cache) \ {k \in fresh : k \notin DOMAIN remote})
                 \cup {k \in fresh : k \in DOMAIN remote}
  IN [k \in keys |-> IF k \in fresh THEN remote[k] ELSE cache[k]]

IdsOf(todos) == {todos[j].id : j \in 1..Len(todos)}
AsItems(todos) == [j \in 1..Len(todos) |-> Item(todos[j].id, todos[j])]

ToAdd(existing, todos) ==
  LET isNew(t) == t.id \notin IdsOf(existing) IN AsItems(SelectSeq(todos, isNew))

\* toUpdate without its filter on the existing ids
ToUpdateUnfiltered(existing, todos) == AsItems(todos)

ToUpdate(existing, todos) ==
  LET isOld(t) == t.id \in IdsOf(existing) IN AsItems(SelectSeq(todos, isOld))

\* toRemove filtered by the existing ids instead of the new ones
ToRemoveByExisting(existing, todos) ==
  LET isGone(t) == t.id \notin IdsOf(existing)
      gone == SelectSeq(existing, isGone)
  IN [j \in 1..Len(gone) |-> Item(gone[j].id, BlankTodo)]

ToRemove(existing, todos) ==
  LET isGone(t) == t.id \notin IdsOf(todos)
      gone == SelectSeq(existing, isGone)
  IN [j \in 1..Len(gone) |-> Item(gone[j].id, BlankTodo)]

NoOptions == [stopOnError |-> FALSE, onProgress |-> "none"]

\* replaceAll(todos), up to the start of its three batches: the snapshot by
\* getAll({ includeRemoved: true }) and the three lists
ReplaceAllStart ==
  /\ CanStart
  /\ impl = "ts"
  /\ \E todos \in SeqsUpTo(Todos, MaxLen), lsrc \in FetchOutcomes, srcs \in [Ids -> FetchOutcomes] :
    LET existing == GetAllTs(lsrc, srcs, TRUE)
        listing == DOMAIN (IF lsrc = "remote" THEN remote ELSE cache)
        c0 == [IdleCall EXCEPT !.op = "replaceAll", !.todos = todos]
    IN /\ ops' = ops + 1
       /\ oplog' = << >>
       /\ IF lsrc = "fail"
            THEN /\ call' = [c0 EXCEPT !.phase = "done", !.outcome = "error"]
                 /\ run' = AllOff
                 /\ cache' = cache
            ELSE /\ call' = [c0 EXCEPT !.phase = "run", !.existing = existing,
                                       !.snapFailed = (\E k \in listing : srcs[k] = "fail")]
                 /\ run' = [r \in Runners |->
                              StartRunner(CASE r = "add" -> ToAdd(existing, todos)
                                            [] r = "update" -> ToUpdate(existing, todos)
                                            [] OTHER -> ToRemove(existing, todos),
                                          NoOptions)]
                 /\ cache' = CacheAfterGetAll(lsrc, srcs)
       /\ UNCHANGED <<ui, procs, impl, remote, foreign>>

\* a merge that lists the errors of the update batch first
MergeResultsUpdateFirst(a, u, d) ==
  [succeeded |-> a.succeeded + u.succeeded + d.succeeded,
   failed |-> a.failed + u.failed + d.failed,
   errors |-> u.errors \o a.errors \o d.errors]

\* the result replaceAll builds from the three results
MergeResults(a, u, d) ==
  [succeeded |-> a.succeeded + u.succeeded + d.succeeded,
   failed |-> a.failed + u.failed + d.failed,
   errors |-> a.errors \o u.errors \o d.errors]

\* replaceAll returns once Promise.all of the three batches has resolved
ReplaceAllReturn ==
  /\ call.op = "replaceAll" /\ call.phase = "run"
  /\ \A r \in Runners : LoopEnded(run[r])
  /\ call' = [call EXCEPT !.phase = "done", !.outcome = "ok",
                          !.result = MergeResults(run["add"].res, run["update"].res, run["remove"].res)]
  /\ UNCHANGED <<ui, procs, impl, remote, cache, foreign, ops, run, oplog>>

\* ------------------------------------------------------------------ reads
\* how the getObject of get settles: with what the store holds, with an
\* error of the not-found family (only for a key the store does not hold),
\* or with any other error
GetFetches == {"value", "raise404", "raise"}

GetResult(outcome, rec) == [outcome |-> outcome, base |-> rec]

\* get of the ts module: no try around getObject, null for nothing, for a
\* non-object and for an object without todo_item_text
GetTs(id, got, fetch) ==
  IF fetch = "raise404" THEN GetResult("error404", << >>)
  ELSE IF fetch = "raise" THEN GetResult("error", << >>)
  ELSE IF got = << >> \/ got[1].todo_item_text = Absent THEN GetResult("null", << >>)
  ELSE GetResult("ok", <<fromTodonnaItem(id, got[1])>>)

\* get of the js module: null for nothing and for a caught not-found error,
\* any other error thrown again
GetJs(id, got, fetch) ==
  IF fetch = "raise404" THEN GetResult("null", << >>)
  ELSE IF fetch = "raise" THEN GetResult("error", << >>)
  ELSE IF got = << >> THEN GetResult("null", << >>)
  ELSE GetResult("ok", <<fromStorage(id, got[1])>>)

\* get(id, maxAge)
Get ==
  /\ CanRead
  /\ \E id \in Ids, maxAge \in {Undef, "0"} :
    \E src \in ReadSources(maxAge), fetch \in GetFetches :
      LET got == ReadFrom(src, id)
          res == IF impl = "ts" THEN GetTs(id, got, fetch) ELSE GetJs(id, got, fetch)
      IN /\ fetch = "raise404" => got = << >>
         /\ call' = [IdleCall EXCEPT !.op = "get", !.phase = "done", !.id = id, !.fetch = fetch,
                                     !.read = IF fetch = "value" THEN got ELSE << >>,
                                     !.outcome = res.outcome, !.base = res.base]
         /\ cache' = IF fetch = "value" THEN CacheAfterRead(src, id) ELSE cache
         /\ oplog' = <<LogEntry("call", 0, "getObject", id, maxAge)>>
         /\ run' = AllOff
         /\ UNCHANGED <<ui, procs, impl, remote, foreign, ops>>

Listing(lsrc) == DOMAIN (IF lsrc = "remote" THEN remote ELSE cache)

\* the objects the getObject calls of getAll brought back, in listing order
Fetched(lsrc, srcs) ==
  LET got(k) == k \in Listing(lsrc) /\ srcs[k] # "fail" /\ ReadFrom(srcs[k], k) # << >>
      keys == SelectSeq(IdSeq, got)
  IN [j \in 1..Len(keys) |-> [key |-> keys[j], obj |-> ReadFrom(srcs[keys[j]], keys[j])[1]]]

\* a filter that lets every record through
KeepAll(todo, includeRemoved) == TRUE

\* the filter on removed at the end of getAll
KeepTodo(todo, includeRemoved) == includeRemoved \/ ~Truthy(todo.removed)

\* a getObject of a listed key throws an error that is not of the not-found
\* family: under Promise.all of the js module this rejects getAll
FetchFails(lsrc, srcs) == \E k \in Listing(lsrc) : srcs[k] = "fail"

\* getAll of the js module when it resolves: nothing and non-objects dropped,
\* every other object decoded, then the removed filter
GetAllJs(lsrc, srcs, includeRemoved) ==
  LET entries == [j \in 1..Len(Fetched(lsrc, srcs)) |->
                    fromStorage(Fetched(lsrc, srcs)[j].key, Fetched(lsrc, srcs)[j].obj)]
      keep(todo) == KeepTodo(todo, includeRemoved)
  IN SelectSeq(entries, keep)

\* getAll({ includeRemoved }) with the default maxAge
GetAll ==
  /\ CanRead
  /\ \E includeRemoved \in BOOLEAN, lsrc \in FetchOutcomes, srcs \in [Ids -> FetchOutcomes] :
    LET c0 == [IdleCall EXCEPT !.op = "getAll", !.phase = "done", !.includeRemoved = includeRemoved]
        rejects == lsrc = "fail" \/ (impl = "js" /\ FetchFails(lsrc, srcs))
    IN /\ IF rejects
            THEN call' = [c0 EXCEPT !.outcome = "error",
                                    !.fetch = IF lsrc = "fail" THEN "listing" ELSE "object"]
            ELSE call' = [c0 EXCEPT !.outcome = "ok",
                                    !.fetch = IF FetchFails(lsrc, srcs) THEN "object" ELSE "none",
                                    !.fetched = Fetched(lsrc, srcs),
                                    !.existing = IF impl = "ts"
                                                   THEN GetAllTs(lsrc, srcs, includeRemoved)
                                                   ELSE GetAllJs(lsrc, srcs, includeRemoved)]
       /\ cache' = IF lsrc = "fail" THEN cache ELSE CacheAfterGetAll(lsrc, srcs)
       /\ run' = AllOff
       /\ oplog' = << >>
       /\ UNCHANGED <<ui, procs, impl, remote, foreign, ops>>

\* the dates a caller asks for: a day that has records, one that has none,
\* and today
QueryDates == {"D1b", "D2", "Dnow"}

\* getByDate(date): getAll() filtered by the day of the decoded date
GetByDateTs(date, lsrc, srcs) ==
  LET sameDay(todo) == toDateString(NewDate(todo.date)) = toDateString(date)
  IN SelectSeq(GetAllTs(lsrc, srcs, FALSE), sameDay)

GetByDate ==
  /\ CanRead
  /\ impl = "ts"
  /\ \E date \in QueryDates, lsrc \in FetchOutcomes, srcs \in [Ids -> FetchOutcomes] :
    LET c0 == [IdleCall EXCEPT !.op = "getByDate", !.phase = "done", !.date = date]
    IN /\ IF lsrc = "fail"
            THEN call' = [c0 EXCEPT !.outcome = "error", !.fetch = "listing"]
            ELSE call' = [c0 EXCEPT !.outcome = "ok",
                                    !.fetch = IF FetchFails(lsrc, srcs) THEN "object" ELSE "none",
                                    !.fetched = Fetched(lsrc, srcs),
                                    !.existing = GetByDateTs(date, lsrc, srcs)]
       /\ cache' = IF lsrc = "fail" THEN cache ELSE CacheAfterGetAll(lsrc, srcs)
       /\ run' = AllOff
       /\ oplog' = << >>
       /\ UNCHANGED <<ui, procs, impl, remote, foreign, ops>>

\* ------------------------------------------------------- clear operations
ClearOps == {"clearByDate", "clearCompletedByDate", "clearIncompleteByDate"}

\* the records of the day a clear operation goes on to remove
ClearFilter(op, todos) ==
  LET done(t) == t.todo_item_status = "done"
      pending(t) == t.todo_item_status = "pending"
  IN CASE op = "clearCompletedByDate" -> SelectSeq(todos, done)
       [] op = "clearIncompleteByDate" -> SelectSeq(todos, pending)
       [] OTHER -> todos

\* clear...ByDate(date), up to the loop of its batchRemove
ClearStart ==
  /\ CanStart
  /\ impl = "ts"
  /\ \E op \in ClearOps, date \in QueryDates, lsrc \in FetchOutcomes, srcs \in [Ids -> FetchOutcomes] :
    LET todos == ClearFilter(op, GetByDateTs(date, lsrc, srcs))
        ids == [j \in 1..Len(todos) |-> Item(todos[j].id, BlankTodo)]
        c0 == [IdleCall EXCEPT !.op = op, !.date = date, !.before = <<remote>>]
    IN /\ ops' = ops + 1
       /\ oplog' = << >>
       /\ IF lsrc = "fail"
            THEN /\ call' = [c0 EXCEPT !.phase = "done", !.outcome = "error", !.fetch = "listing"]
                 /\ run' = AllOff
                 /\ cache' = cache
            ELSE /\ call' = [c0 EXCEPT !.phase = "run", !.existing = todos,
                                       !.fetch = IF FetchFails(lsrc, srcs) THEN "object" ELSE "none"]
                 /\ run' = [AllOff EXCEPT !["remove"] = StartRunner(ids, NoOptions)]
                 /\ cache' = CacheAfterGetAll(lsrc, srcs)
       /\ UNCHANGED <<ui, procs, impl, remote, foreign>>

\* a clear operation returns the succeeded count of its batchRemove
ClearReturn ==
  /\ call.op \in ClearOps /\ call.phase = "run"
  /\ LoopEnded(run["remove"])
  /\ call' = [call EXCEPT !.phase = "done", !.outcome = "ok", !.result = run["remove"].res]
  /\ UNCHANGED <<ui, procs, impl, remote, cache, foreign, ops, run, oplog>>

\* the module used by one device
Next ==
  \/ Add \/ UpdateRead \/ UpdateWrite \/ Remove \/ NextCall
  \/ BatchStart \/ BatchIssue \/ BatchSettle \/ BatchUpdateRead \/ BatchUpdateWrite \/ BatchReturn
  \/ ReplaceAllStart \/ ReplaceAllReturn
  \/ Get \/ GetAll \/ GetByDate \/ ClearStart \/ ClearReturn

Spec == Init /\ [][Next]_vars

\* the single-record operations while another device writes the same scope
SharedNext ==
  \/ Add \/ UpdateRead \/ UpdateWrite \/ Remove \/ NextCall \/ RemoteChange
  \/ Get \/ GetAll

SharedSpec == Init /\ [][SharedNext]_vars

\* ------------------------------------------------- actions of useData
todonnaVars == <<impl, remote, cache, foreign, ops, call, run, oplog, procs>>

\* the value mutation m writes
WrittenValue(m) == "w" \o ToString(m)

Note(kind, m) == [kind |-> kind, m |-> m]

\* the calls of loadAllData made so far by the effects and the handlers
Triggered(u) == Cardinality({r \in 1..Len(u.reloads) : u.reloads[r].origin # "mutation"})

\* remoteStorage fires 'connected': isConnected becomes true, the effects
\* run again, loadAllData is called and one more change handler is attached
Connect ==
  /\ ~ui.connected
  /\ ui.connects < MaxConnects
  /\ Triggered(ui) < MaxReloads
  /\ ui' = [ui EXCEPT !.connected = TRUE, !.connects = @ + 1, !.handlers = @ + 1,
                      !.isLoading = TRUE,
                      !.reloads = Append(@, NewReload([ui EXCEPT !.connected = TRUE], "connect", "none", 0))]
  /\ UNCHANGED todonnaVars

\* remoteStorage fires 'disconnected': the initial-load effect sets
\* isLoading to false; no handler is detached
Disconnect ==
  /\ ui.connected
  /\ ui' = [ui EXCEPT !.connected = FALSE, !.isLoading = FALSE]
  /\ UNCHANGED todonnaVars

\* another device writes a scope; its change notification is on its way
ForeignChange ==
  /\ ui.changes < MaxForeign
  /\ \E s \in {"todos", "settings"} :
       ui' = [ui EXCEPT !.changes = @ + 1, !.store[s] = "ext",
                        !.inbox = @ \cup {Note("foreign", ui.changes + 1)}]
  /\ UNCHANGED todonnaVars

\* handlers that call loadAllData whatever isSavingRef.current is
HandlerStartsAlways(guard, handlers) == handlers

\* the number of handlers that go on to call loadAllData
HandlerStarts(guard, handlers) == IF guard THEN 0 ELSE handlers

\* a change notification reaches the attached handlers: each returns when
\* isSavingRef.current is set and calls loadAllData otherwise
ChangeNotification ==
  /\ ui.notes < MaxNotes
  /\ \E n \in ui.inbox :
       LET started == HandlerStarts(ui.guard, ui.handlers)
       IN /\ Triggered(ui) + started <= MaxReloads
          /\ ui' = [ui EXCEPT !.inbox = @ \ {n}, !.notes = @ + 1,
                              !.last = [kind |-> n.kind, guard |-> ui.guard,
                                        started |-> started, connected |-> ui.connected],
                              !.isLoading = IF started > 0 THEN TRUE ELSE @,
                              !.reloads = @ \o [j \in 1..started |-> NewReload(ui, "change", n.kind, 0)]]
  /\ UNCHANGED todonnaVars

\* a mutation that goes on whatever the connection and the module are
RejectsNever(connected, present) == FALSE

\* the first test of every mutation: the scope's module is missing or the
\* hook is not connected
Rejects(connected, present) == ~present \/ ~connected

\* a mutation is called: it throws when the module is missing or the hook is
\* not connected, else it sets isSavingRef.current and issues its write;
\* saveSettings sets the settings snapshot first
MutationStart ==
  /\ Len(ui.muts) < MaxMutations
  /\ \E kind \in Mutations, present \in BOOLEAN :
       LET m == Len(ui.muts) + 1 IN
       IF Rejects(ui.connected, present)
         THEN ui' = [ui EXCEPT !.muts = Append(@, [NewMutation(kind) EXCEPT
                                           !.pc = "done", !.outcome = "error", !.rejected = TRUE,
                                           !.present = present])]
         ELSE ui' = [ui EXCEPT !.guard = TRUE,
                               !.muts = Append(@, [NewMutation(kind) EXCEPT !.guardAtStart = ui.guard]),
                               !.cached["settings"] = IF kind = "saveSettings" THEN WrittenValue(m) ELSE @]
  /\ UNCHANGED todonnaVars

\* a finally block that sets no timer after an error
ReleaseTimersOnSuccess(timers, outcome) == IF outcome = "ok" THEN timers + 1 ELSE timers

\* the finally block of a mutation: setTimeout(() => isSavingRef.current = false, 100)
ReleaseTimers(timers, outcome) == timers + 1

\* a mutation returns or throws, through its finally block
EndMutation(u, m, outcome) ==
  [u EXCEPT !.muts[m].pc = "done", !.muts[m].outcome = outcome,
            !.timers = ReleaseTimers(@, outcome)]

\* the catch block of saveItem and saveSettings: await loadAllData()
CatchReload(u, m) ==
  [u EXCEPT !.muts[m].pc = "reload", !.muts[m].reload = Len(u.reloads) + 1,
            !.isLoading = TRUE,
            !.reloads = Append(@, NewReload(u, "mutation", "none", m))]

\* catch blocks that only throw the error again
AfterFailureNoReload(u, m) == EndMutation(u, m, "error")

\* what a mutation does when its write or its getItemsList throws
AfterFailure(u, m) ==
  IF u.muts[m].kind \in {"saveItem", "saveSettings"}
    THEN CatchReload(u, m) ELSE EndMutation(u, m, "error")

\* the remote write of a mutation settles
MutationWrite ==
  \E m \in 1..Len(ui.muts), ok \in BOOLEAN :
    LET mu == ui.muts[m]
        scope == ScopeOf(mu.kind)
        stored == [ui EXCEPT !.store[scope] = WrittenValue(m), !.muts[m].wrote = TRUE,
                             !.inbox = @ \cup {Note("echo", m)}]
    IN /\ mu.pc = "write"
       /\ ui' = IF ~ok THEN AfterFailure(ui, m)
                ELSE CASE mu.kind \in {"saveItem", "deleteItem"} -> [stored EXCEPT !.muts[m].pc = "list"]
                       [] mu.kind = "saveAiConfig" ->
                            EndMutation([stored EXCEPT !.cached["aiConfig"] = WrittenValue(m)], m, "ok")
                       [] OTHER -> EndMutation(stored, m, "ok")
       /\ UNCHANGED todonnaVars

\* the getItemsList after the write of saveItem or deleteItem settles
MutationList ==
  \E m \in 1..Len(ui.muts), ok \in BOOLEAN :
    /\ ui.muts[m].pc = "list"
    /\ ui' = IF ok THEN EndMutation([ui EXCEPT !.cached["itemsList"] = ui.store["itemsList"],
                                               !.muts[m].listed = TRUE], m, "ok")
                   ELSE AfterFailure(ui, m)
    /\ UNCHANGED todonnaVars

\* the loadAllData awaited in a catch block has returned: throw error
MutationReloaded ==
  \E m \in 1..Len(ui.muts) :
    /\ ui.muts[m].pc = "reload"
    /\ ui.reloads[ui.muts[m].reload].done
    /\ ui' = EndMutation(ui, m, "error")
    /\ UNCHANGED todonnaVars

\* a timer of a finally block fires
TimerFires ==
  /\ ui.timers > 0
  /\ ui' = [ui EXCEPT !.timers = @ - 1, !.guard = FALSE]
  /\ UNCHANGED todonnaVars

\* the awaited loader settles: its result is set as the snapshot and the
\* next loader is called, or its error is caught by the one catch of
\* loadAllData; finally isLoading = false
ReloadSettle ==
  \E r \in 1..Len(ui.reloads), ok \in BOOLEAN :
    LET rl == ui.reloads[r]
        scope == Loaders[rl.next]
        last == ~ok \/ rl.next = Len(Loaders)
    IN /\ ~rl.done
       /\ ui' = [ui EXCEPT !.cached[scope] = IF ok THEN rl.val ELSE @,
                           !.isLoading = IF last THEN FALSE ELSE @,
                           !.reloads[r] =
                              IF last
                                THEN [rl EXCEPT !.val = "none", !.done = TRUE,
                                                !.updated = IF ok THEN @ \cup {scope} ELSE @,
                                                !.failed = IF ok THEN @ ELSE scope]
                                ELSE [rl EXCEPT !.next = @ + 1,
                                                !.val = ui.store[Loaders[rl.next + 1]],
                                                !.invoked = @ \cup {Loaders[rl.next + 1]},
                                                !.updated = @ \cup {scope},
                                                !.offline = @ \/ ~ui.connected]]
       /\ UNCHANGED todonnaVars

\* the hook and its connection, without mutations
ReloadNext == Connect \/ Disconnect \/ ForeignChange \/ ChangeNotification \/ ReloadSettle

\* the hook loads the ts module
CoordInit == Init /\ impl = "ts"

ReloadSpec == CoordInit /\ [][ReloadNext]_vars

\* the hook once it is connected and its first loadAllData has loaded
\* every scope
ConnectedUi ==
  [InitUi EXCEPT !.connected = TRUE, !.connects = 1, !.handlers = 1, !.isLoading = FALSE,
                 !.cached = [s \in Scopes |-> "v0"],
                 !.reloads = <<[NewReload(InitUi, "connect", "none", 0) EXCEPT
                                   !.next = Len(Loaders), !.val = "none", !.invoked = Scopes,
                                   !.updated = Scopes, !.offline = FALSE, !.done = TRUE]>>]

GuardInit ==
  /\ impl = "ts"
  /\ remote = << >>
  /\ cache = << >>
  /\ foreign = 0
  /\ ops = 0
  /\ call = IdleCall
  /\ run = AllOff
  /\ oplog = << >>
  /\ procs = << >>
  /\ ui = ConnectedUi

\* the hook with its mutations, while it stays connected and no other
\* device writes
GuardNext ==
  \/ ChangeNotification
  \/ MutationStart \/ MutationWrite \/ MutationList \/ MutationReloaded \/ TimerFires
  \/ ReloadSettle

GuardSpec == GuardInit /\ [][GuardNext]_vars

\* the hook with foreign changes arriving while mutations run
WindowNext == ForeignChange \/ GuardNext

WindowSpec == GuardInit /\ [][WindowNext]_vars

\* the connected hook losing its connection while mutations are called
OfflineNext ==
  \/ Disconnect
  \/ MutationStart \/ MutationWrite \/ MutationList \/ MutationReloaded \/ TimerFires
  \/ ReloadSettle

OfflineSpec == GuardInit /\ [][OfflineNext]_vars

\* every awaited store call settles and every timer fires
FairGuardSpec ==
  /\ GuardSpec
  /\ WF_vars(MutationWrite) /\ WF_vars(MutationList) /\ WF_vars(MutationReloaded)
  /\ WF_vars(ReloadSettle) /\ WF_vars(TimerFires)

\* ------------------------------------------- calls that are not awaited
\* update(id, updates) called while earlier calls are still pending: the
\* call issues its getObject and waits
NewCall(op, id, updates) ==
  [op |-> op, id |-> id, arg |-> updates, phase |-> "read", read |-> << >>, base |-> << >>,
   outcome |-> "none", fault |-> FALSE, sawWrites |-> 0, writeNo |-> 0]

Accepted(ps) == Cardinality({q \in 1..Len(ps) : ps[q].writeNo > 0})

UpdateCall ==
  /\ Len(procs) < MaxCalls
  /\ \E id \in Ids, updates \in Partials :
       procs' = Append(procs, NewCall("update", id, updates))
  /\ UNCHANGED <<ui, impl, remote, cache, foreign, ops, call, run, oplog>>

\* the getObject of a pending update settles: not found and a failed read
\* throw, otherwise the call builds its record and issues its storeObject
UpdateGot ==
  \E p \in 1..Len(procs), ok \in BOOLEAN, src \in ReadSources(UpdateMaxAge) :
    LET c == procs[p]
        got == ReadFrom(src, c.id)
    IN /\ c.op = "update" /\ c.phase = "read"
       /\ cache' = IF ok THEN CacheAfterRead(src, c.id) ELSE cache
       /\ procs' = [procs EXCEPT ![p] =
            IF ~ok THEN [c EXCEPT !.phase = "done", !.outcome = "error", !.fault = TRUE]
            ELSE IF got = << >> THEN [c EXCEPT !.phase = "done", !.outcome = "notfound"]
            ELSE [c EXCEPT !.phase = "write", !.read = got, !.base = <<Decode(c.id, got[1])>>,
                           !.sawWrites = Accepted(procs)]]
       /\ UNCHANGED <<ui, impl, remote, foreign, ops, call, run, oplog>>

\* a call that merges into the record the store holds when it writes
WriteBaseFresh(c, store) == IF c.id \in DOMAIN store THEN Decode(c.id, store[c.id]) ELSE c.base[1]

\* the record a pending update merges its updates into: the one it read
WriteBase(c, store) == c.base[1]

\* the storeObject of a pending update settles
UpdateStored ==
  \E p \in 1..Len(procs), ok \in BOOLEAN :
    LET c == procs[p]
        key == UpdateKey(c.id, c.arg)
        item == UpdatePayload(WriteBase(c, remote), c.arg, c.id)
    IN /\ c.op = "update" /\ c.phase = "write"
       /\ remote' = IF ok THEN Store(remote, key, item) ELSE remote
       /\ cache' = IF ok THEN Store(cache, key, item) ELSE cache
       /\ procs' = [procs EXCEPT ![p] =
            IF ok THEN [c EXCEPT !.phase = "done", !.outcome = "ok", !.writeNo = Accepted(procs) + 1]
                  ELSE [c EXCEPT !.phase = "done", !.outcome = "error", !.fault = TRUE]]
       /\ UNCHANGED <<ui, impl, foreign, ops, call, run, oplog>>

\* remove(id) called while earlier calls are still pending: the call
\* issues its remove and waits
RemoveCall ==
  /\ Len(procs) < MaxCalls
  /\ \E id \in Ids :
       procs' = Append(procs, [NewCall("remove", id, BlankTodo) EXCEPT !.phase = "remove"])
  /\ UNCHANGED <<ui, impl, remote, cache, foreign, ops, call, run, oplog>>

\* the remove of a pending remove(id) settles
RemoveDone ==
  \E p \in 1..Len(procs), ok \in BOOLEAN :
    LET c == procs[p] IN
      /\ c.op = "remove" /\ c.phase = "remove"
      /\ remote' = IF ok THEN Erase(remote, c.id) ELSE remote
      /\ cache' = IF ok THEN Erase(cache, c.id) ELSE cache
      /\ procs' = [procs EXCEPT ![p] =
           IF ok THEN [c EXCEPT !.phase = "done", !.outcome = "ok", !.writeNo = Accepted(procs) + 1]
                 ELSE [c EXCEPT !.phase = "done", !.outcome = "error", !.fault = TRUE]]
      /\ UNCHANGED <<ui, impl, foreign, ops, call, run, oplog>>

\* the stores the calls can find: any set of ids, each holding a todo that
\* add stored under it
SeedStores ==
  {s \in UNION {[K -> {toTodonnaItem(t) : t \in Todos}] : K \in SUBSET Ids} :
     \A k \in DOMAIN s : \E t \in Todos : t.id = k /\ s[k] = toTodonnaItem(t)}

RaceInit ==
  /\ impl = "ts"
  /\ remote \in SeedStores
  /\ cache = remote
  /\ foreign = 0 /\ ops = 0 /\ call = IdleCall /\ run = AllOff /\ oplog = << >>
  /\ procs = << >>
  /\ ui = InitUi

RaceNext == UpdateCall \/ UpdateGot \/ UpdateStored \/ RemoveCall \/ RemoveDone

RaceSpec == RaceInit /\ [][RaceNext]_vars

\* ------------------------------------------------------------ the codec
\* the records the codec is given: every way of carrying the completion
\* (the flag, the status, both, neither), with and without the optional keys
StatusForms ==
  {<<Absent, Absent>>, <<"true", Absent>>, <<"false", Absent>>,
   <<Absent, "pending">>, <<Absent, "done">>, <<Absent, "archived">>,
   <<"true", "pending">>, <<"false", "done">>}

Records ==
  {[BlankTodo EXCEPT !.id = "1", !.text = "t1", !.completed = sf[1], !.todo_item_status = sf[2],
                     !.emoji = e, !.date = d, !.time = t] :
     sf \in StatusForms, e \in {Absent, "e1"}, d \in {Absent, "D1", "iso2"}, t \in {Absent, "9:00"}}

\* a record is encoded
CodecEncode ==
  /\ call.phase = "idle"
  /\ \E r \in Records :
       call' = [IdleCall EXCEPT !.op = "codec", !.phase = "encoded", !.id = r.id, !.arg = r,
                                !.read = <<Encode(r)>>]
  /\ UNCHANGED <<ui, procs, impl, remote, cache, foreign, ops, run, oplog>>

\* the encoded object is decoded again
CodecDecode ==
  /\ call.op = "codec" /\ call.phase = "encoded"
  /\ call' = [call EXCEPT !.phase = "done", !.outcome = "ok",
                          !.base = <<Decode(call.id, call.read[1])>>]
  /\ UNCHANGED <<ui, procs, impl, remote, cache, foreign, ops, run, oplog>>

CodecNext == CodecEncode \/ CodecDecode

CodecSpec == Init /\ [][CodecNext]_vars

\* ============================================================ properties
ReplaceAllDone == call.op = "replaceAll" /\ call.phase = "done" /\ call.outcome = "ok"
ItemIds(items) == {items[j].id : j \in 1..Len(items)}
LogOf(r) == LET of(e) == e.r = r IN SelectSeq(oplog, of)

C2_Partition ==
  (call.op = "replaceAll" /\ call.outcome # "error" /\ call.phase \in {"run", "done"}) =>
     LET A == ItemIds(run["add"].items)
         U == ItemIds(run["update"].items)
         R == ItemIds(run["remove"].items)
     IN /\ A \cap U = {} /\ A \cap R = {} /\ U \cap R = {}
        /\ A \cup U \cup R = IdsOf(call.existing) \cup IdsOf(call.todos)
        /\ \A m, n \in 1..Len(oplog) : oplog[m].key = oplog[n].key => oplog[m].r = oplog[n].r

C2_Witness ==
  /\ ReplaceAllDone
  /\ Len(run["update"].items) > 0 /\ Len(run["remove"].items) > 0
  /\ Len(LogOf("update")) > 0 /\ Len(LogOf("remove")) > 0

\* C3: after a replaceAll without any failure the object stored for each id
\* of the new list is the encoding of the new record with that id
C3_StoredAsGiven ==
  (ReplaceAllDone /\ call.result.failed = 0 /\ ~call.snapFailed) =>
     \A j \in 1..Len(call.todos) :
        (\A m \in 1..Len(call.todos) : call.todos[m].id = call.todos[j].id => m = j)
          => /\ call.todos[j].id \in DOMAIN remote
             /\ remote[call.todos[j].id] = toTodonnaItem(call.todos[j])

\* C4: in every batch, succeeded + failed never exceeds the number of items
C4_CountsBounded ==
  \A r \in Runners :
     run[r].on => run[r].res.succeeded + run[r].res.failed <= Len(run[r].items)

C6_AllAttempted ==
  \A r \in Runners :
     (call.op = BatchOp(r) /\ call.phase = "done" /\ ~run[r].stopOnError) =>
        /\ call.outcome = "ok"
        /\ \A j \in 1..Len(run[r].items) :
              Cardinality({m \in 1..Len(oplog) : oplog[m].idx = j /\ oplog[m].kind = FirstKind(r)}) = 1
        /\ call.result.succeeded + call.result.failed = Len(run[r].items)

\* C7: within one batch at most one item is in flight, it is the item
\* issued last, and the items are issued in input order, each once
C7_Sequential ==
  \A r \in Runners :
     LET rr == run[r]
         first == LET isFirst(e) == e.r = r /\ e.kind = FirstKind(r) IN SelectSeq(oplog, isFirst)
     IN rr.on =>
          /\ Cardinality(rr.inflight) <= 1
          /\ \A e \in rr.inflight : e.idx = rr.i - 1
          /\ Len(first) = rr.i - 1
          /\ \A m \in 1..Len(first) : first[m].idx = m

C7_Witness ==
  \E r \in Runners :
     /\ run[r].on /\ call.op = BatchOp(r)
     /\ \E e \in run[r].inflight : e.idx = 2
     /\ run[r].res.failed = 1

UpdateAbsent == call.op = "update" /\ call.phase # "idle" /\ call.remoteAtRead = << >>
Stores == {m \in 1..Len(oplog) : oplog[m].kind = "storeObject"}

\* C8: an update of an id that has no object in the store fails and issues
\* no storeObject, in both modules
C8_UpdateOfMissing ==
  UpdateAbsent => /\ call.phase = "done"
                  /\ call.outcome \in {"notfound", "error"}
                  /\ Stores = {}

\* C9: update reads the record it merges onto with maxAge = 0 and so merges
\* onto the current value of the store, in both modules
C9_UpdateReadsFresh ==
  call.op = "update" =>
     /\ \A m \in 1..Len(oplog) : oplog[m].kind = "getObject" => oplog[m].maxAge = "0"
     /\ call.read # << >> => call.read = call.remoteAtRead

\* C10: the write of update(id, partial) changes no key but id, and the id
\* it stores is id, whatever id the partial carries
C10_UpdateKeepsId ==
  [][(call.op = "update" /\ call.phase = "write" /\ call'.phase = "done") =>
       /\ \A k \in (DOMAIN remote \cup DOMAIN remote') \ {call.id} :
             Lookup(remote', k) = Lookup(remote, k)
       /\ call'.outcome = "ok" =>
             /\ call.id \in DOMAIN remote'
             /\ remote'[call.id].todo_item_id = call.id]_vars

C10_Witness ==
  /\ call.op = "update" /\ call.phase = "done" /\ call.outcome = "ok"
  /\ Def(call.arg.id) /\ call.arg.id # call.id
  /\ call.id \in DOMAIN remote

ReadDone(op) == call.op = op /\ call.phase = "done" /\ call.outcome = "ok"
Returned == {call.existing[j] : j \in 1..Len(call.existing)}
FetchedSet == {call.fetched[j] : j \in 1..Len(call.fetched)}

\* C11: the todo_item_id of every stored object is the key it is stored at,
\* and every record get, getAll or getByDate returns carries as its id the
\* key of the object it was decoded from
C11_IdIsKey ==
  /\ \A k \in DOMAIN remote : remote[k].todo_item_id = k
  /\ ReadDone("get") => call.base[1].id = call.id /\ call.base[1] = Decode(call.id, call.read[1])
  /\ (ReadDone("getAll") \/ ReadDone("getByDate")) =>
        \A t \in Returned : \E f \in FetchedSet : t.id = f.key /\ t = Decode(f.key, f.obj)

C11_Witness ==
  /\ ReadDone("getAll") /\ Len(call.existing) = 2
  /\ call.existing[1].id # call.existing[2].id
  /\ ops = MaxOps

GetAllNow(includeRemoved) ==
  LET srcs == [k \in Ids |-> "remote"]
  IN IF impl = "ts" THEN GetAllTs("remote", srcs, includeRemoved)
                    ELSE GetAllJs("remote", srcs, includeRemoved)

\* C13: once update(id, { removed: true }) has succeeded, the key id is still
\* in the store, getAll() does not return the record, and
\* getAll({ includeRemoved: true }) returns it with removed = true
C13_SoftDelete ==
  (ReadDone("update") /\ call.arg.removed = "true") =>
     /\ call.id \in DOMAIN remote
     /\ call.id \notin IdsOf(GetAllNow(FALSE))
     /\ \E j \in 1..Len(GetAllNow(TRUE)) :
           GetAllNow(TRUE)[j].id = call.id /\ GetAllNow(TRUE)[j].removed = "true"

\* C14: a getAll in which the fetch of some listed key fails with an error
\* still returns, with the record of every other object it fetched
C14_SettleAll ==
  (call.op = "getAll" /\ call.phase = "done" /\ call.fetch = "object") =>
     /\ call.outcome = "ok"
     /\ \A f \in FetchedSet :
           (f.obj.todo_item_text # Absent /\ KeepTodo(Decode(f.key, f.obj), call.includeRemoved))
              => Decode(f.key, f.obj) \in Returned

\* C15: get returns null when the store has nothing for the id, whether it
\* says so by returning nothing or by raising a not-found error, and rejects
\* with the error of the store for any other error
C15_GetNotFound ==
  (call.op = "get" /\ call.phase = "done") =>
     /\ (call.fetch = "value" /\ call.read = << >>) => call.outcome = "null"
     /\ call.fetch = "raise404" => call.outcome = "null"
     /\ call.fetch = "raise" => call.outcome = "error"

\* C16: an object stored without todo_item_text is never returned as a
\* record: getAll leaves it out and get answers null for its key
C16_TextRequired ==
  /\ ReadDone("getAll") => \A t \in Returned : Def(t.text)
  /\ (call.op = "get" /\ call.phase = "done" /\ call.read # << >>) =>
        (call.read[1].todo_item_text = Absent => call.outcome = "null" /\ call.base = << >>)

\* the status a record stands for once its completion flag is taken into account
NormalStatus(r) ==
  IF Def(r.completed) THEN (IF Truthy(r.completed) THEN "done" ELSE "pending")
  ELSE IF Def(r.todo_item_status) THEN r.todo_item_status ELSE "pending"

Value(v) == IF Def(v) THEN v ELSE Absent
Instant(d) == IF Def(d) THEN NewDate(d) ELSE Absent

\* C17: decoding the encoding of a record gives its text, its status after
\* the completion flag is applied, its emoji, its date (none when it has
\* none) and its time
C17_RoundTrip ==
  (call.op = "codec" /\ call.phase = "done") =>
     LET r == call.arg
         d == call.base[1]
     IN /\ d.text = r.text
        /\ d.todo_item_status = NormalStatus(r)
        /\ Value(d.emoji) = Value(r.emoji)
        /\ Instant(d.date) = Instant(r.date)
        /\ Value(d.time) = Value(r.time)

\* C18: a record given with an explicit completed flag is stored as done
\* exactly when the flag is true, whatever status it carries; so
\* update(id, { completed: true }) leaves a pending record stored as done
C18_CompletedWins ==
  ((ReadDone("add") \/ ReadDone("update")) /\ Def(call.arg.completed)) =>
     /\ call.id \in DOMAIN remote
     /\ remote[call.id].todo_item_status = IF Truthy(call.arg.completed) THEN "done" ELSE "pending"

\* the local day of the date an object is stored with, if it has one
StoredDay(obj) == IF Truthy(obj.date) THEN toDateString(NewDate(obj.date)) ELSE Absent

\* the keys a clear operation is to remove: the objects of the day that are
\* not removed and whose stored status is the one the operation names
ClearTarget(op, date, store) ==
  {k \in DOMAIN store :
     /\ ~Truthy(store[k].removed)
     /\ StoredDay(store[k]) = toDateString(date)
     /\ CASE op = "clearCompletedByDate" -> store[k].todo_item_status = "done"
          [] op = "clearIncompleteByDate" -> store[k].todo_item_status = "pending"
          [] OTHER -> TRUE}

\* C19: a clear operation in which nothing fails removes exactly the objects
\* of that day with the status it names, leaves every other object as it
\* was, and returns the number it removed
C19_ClearExact ==
  (call.op \in ClearOps /\ call.phase = "done" /\ call.outcome = "ok"
     /\ call.fetch = "none" /\ call.result.failed = 0) =>
     LET before == call.before[1]
         target == ClearTarget(call.op, call.date, before)
     IN /\ DOMAIN remote = DOMAIN before \ target
        /\ \A k \in DOMAIN remote : remote[k] = before[k]
        /\ call.result.succeeded = Cardinality(target)

\* C20: getByDate(d) returns the record of a fetched object exactly when the
\* date the object is stored with is on the local day of d; an object stored
\* without a date is returned for no d
C20_ByDate ==
  ReadDone("getByDate") =>
     /\ \A f \in FetchedSet :
           f.obj.todo_item_text # Absent =>
              (Decode(f.key, f.obj) \in Returned <=> StoredDay(f.obj) = toDateString(call.date))
     /\ \A t \in Returned : \E f \in FetchedSet : t = Decode(f.key, f.obj)

\* ------------------------------------------------------------- the hook
NotificationStep == ui'.notes = ui.notes + 1
NewReloads == SubSeq(ui'.reloads, Len(ui.reloads) + 1, Len(ui'.reloads))

\* C21: a change notification that arrives while the saving guard is set
\* starts no reload and changes no snapshot; one that arrives while the
\* guard is clear and the hook is connected starts a reload of all scopes
C21_GuardedNotification ==
  [][NotificationStep =>
       IF ui.guard
         THEN /\ ui'.reloads = ui.reloads
              /\ ui'.cached = ui.cached
              /\ ui'.isLoading = ui.isLoading
         ELSE ui.connected =>
                /\ Len(NewReloads) >= 1
                /\ \A j \in 1..Len(NewReloads) :
                      /\ NewReloads[j].origin = "change"
                      /\ NewReloads[j].next = 1 /\ ~NewReloads[j].done]_vars

C21_Witness ==
  /\ ui.notes = 2
  /\ ui.last.kind = "echo" /\ ~ui.last.guard /\ ui.last.started = 1 /\ ui.last.connected

\* C22: the saving guard is set for as long as the remote write of any
\* mutation is in flight
C22_GuardCoversWrites ==
  \A m \in 1..Len(ui.muts) : ui.muts[m].pc = "write" => ui.guard

\* C23: no reload is ever started by the change notification that echoes a
\* write of the hook itself
C23_NoEchoReload ==
  \A r \in 1..Len(ui.reloads) : ui.reloads[r].cause # "echo"

\* C24: a guard that is set is cleared again, after a mutation that
\* succeeded and after one that failed, and a notification that arrives
\* once it is clear starts a reload
C24_GuardClears ==
  /\ ui.guard ~> ~ui.guard
  /\ [][(NotificationStep /\ ~ui.guard) => Len(NewReloads) >= 1]_vars

C24_Witness ==
  /\ ~ui.guard /\ ui.timers = 0
  /\ \E m \in 1..Len(ui.muts) : ui.muts[m].outcome = "error" /\ ~ui.muts[m].rejected
  /\ \E r \in 1..Len(ui.reloads) : ui.reloads[r].origin = "change"

\* C27: saveSettings sets the settings snapshot to the new value when it
\* issues its write; a write that succeeds ends the call without a reload;
\* a write that fails starts a reload and leaves the snapshot as it is, and
\* the call throws once that reload has returned
C27_OptimisticSettings ==
  [][\A m \in 1..Len(ui'.muts) :
       (ui'.muts[m].kind = "saveSettings" /\ ~ui'.muts[m].rejected) =>
          /\ m > Len(ui.muts) =>
                /\ ui'.cached["settings"] = WrittenValue(m)
                /\ ui'.muts[m].pc = "write" /\ ~ui'.muts[m].wrote
          /\ (m <= Len(ui.muts) /\ ui.muts[m].pc = "write" /\ ui'.muts[m].pc # "write") =>
                IF ui'.muts[m].wrote
                  THEN /\ ui'.muts[m].pc = "done" /\ ui'.muts[m].outcome = "ok"
                       /\ ui'.reloads = ui.reloads
                  ELSE /\ ui'.muts[m].pc = "reload"
                       /\ Len(NewReloads) = 1 /\ NewReloads[1].owner = m
                       /\ ui'.cached = ui.cached
          /\ (m <= Len(ui.muts) /\ ui.muts[m].pc # "done" /\ ui'.muts[m].pc = "done"
                /\ ~ui'.muts[m].wrote) =>
                /\ ui'.muts[m].outcome = "error"
                /\ ui.muts[m].pc = "reload" /\ ui.reloads[ui.muts[m].reload].done
                /\ ui'.cached = ui.cached]_vars

C27_Witness ==
  \E m \in 1..Len(ui.muts) :
     /\ ui.muts[m].kind = "saveSettings" /\ ui.muts[m].pc = "done"
     /\ ui.muts[m].outcome = "error" /\ ui.muts[m].reload > 0
     /\ ui.cached["settings"] = WrittenValue(m)

\* C28: saveItem and deleteItem refresh the items list only after their
\* write has succeeded, and one whose write failed has run a reload before
\* it throws
C28_ItemWrites ==
  \A m \in 1..Len(ui.muts) :
     (ui.muts[m].kind \in {"saveItem", "deleteItem"} /\ ~ui.muts[m].rejected) =>
        /\ ui.muts[m].listed => ui.muts[m].wrote
        /\ (ui.muts[m].pc = "done" /\ ~ui.muts[m].wrote) =>
              /\ ui.muts[m].outcome = "error"
              /\ ui.muts[m].reload > 0 /\ ui.reloads[ui.muts[m].reload].done

ConnectReloads == {r \in 1..Len(ui.reloads) : ui.reloads[r].origin = "connect"}

\* C25: every transition into Connected has started one reload, a finished
\* reload of that origin has invoked the loader of every scope, and none of
\* its loaders was invoked while the hook was not connected
C25_ConnectLoadsAll ==
  /\ Cardinality(ConnectReloads) = ui.connects
  /\ \A r \in ConnectReloads :
        /\ ui.reloads[r].done => ui.reloads[r].invoked = Scopes
        /\ ~ui.reloads[r].offline

\* C26: a finished reload in which one loader failed has invoked every
\* loader and has updated the snapshot of every other scope
C26_FailureIsolated ==
  \A r \in 1..Len(ui.reloads) :
     (ui.reloads[r].done /\ ui.reloads[r].failed # "none") =>
        /\ ui.reloads[r].invoked = Scopes
        /\ ui.reloads[r].updated = Scopes \ {ui.reloads[r].failed}

\* C30: replaceAll returns the sums of the three batches' succeeded and
\* failed counts and their errors in the order add, update, remove; every
\* item of the three lists is attempted exactly once, by its own batch's
\* operations only, so succeeded + failed is the number of items of the
\* three lists whatever fails in another batch
C30_ReplaceAllResult ==
  ReplaceAllDone =>
    LET a == run["add"] u == run["update"] d == run["remove"] IN
      /\ call.result.succeeded = a.res.succeeded + u.res.succeeded + d.res.succeeded
      /\ call.result.failed = a.res.failed + u.res.failed + d.res.failed
      /\ call.result.errors = a.res.errors \o u.res.errors \o d.res.errors
      /\ call.result.succeeded + call.result.failed = Len(a.items) + Len(u.items) + Len(d.items)
      /\ Len(call.result.errors) = call.result.failed
      /\ \A r \in Runners :
            /\ run[r].res.succeeded + run[r].res.failed = Len(run[r].items)
            /\ \A j \in 1..Len(run[r].items) :
                  Cardinality({m \in 1..Len(oplog) :
                     oplog[m].r = r /\ oplog[m].idx = j /\ oplog[m].kind = FirstKind(r)}) = 1
      /\ \A m \in 1..Len(oplog) :
            /\ oplog[m].key = run[oplog[m].r].items[oplog[m].idx].id
            /\ oplog[m].kind = FirstKind(oplog[m].r)
                 \/ (oplog[m].r = "update" /\ oplog[m].kind = "storeObject")

C30_Witness ==
  /\ ReplaceAllDone
  /\ run["add"].res.failed = 1 /\ run["update"].res.failed = 1
  /\ call.result.errors = <<run["add"].items[1].id, run["update"].items[1].id>>
  /\ run["add"].items[1].id # run["update"].items[1].id

\* two updates of one id that both read before any call wrote, with no
\* failure of the store
Raced(p, q) ==
  /\ p # q
  /\ procs[p].op = "update" /\ procs[q].op = "update" /\ procs[p].id = procs[q].id
  /\ procs[p].phase = "done" /\ procs[q].phase = "done"
  /\ procs[p].read # << >> /\ procs[q].read # << >>
  /\ procs[p].sawWrites = 0 /\ procs[q].sawWrites = 0
  /\ ~procs[p].fault /\ ~procs[q].fault

\* C29: when two updates of one id both read before either writes, both
\* end without error and, while the later of their writes is the last one
\* the store accepted, the stored record is the record both read with only
\* the updates of the call that made that write
C29_LastWriteWins ==
  \A p, q \in 1..Len(procs) :
     (Raced(p, q) /\ procs[p].writeNo < procs[q].writeNo /\ procs[q].writeNo = Accepted(procs)) =>
        /\ procs[p].outcome = "ok" /\ procs[q].outcome = "ok"
        /\ procs[p].read = procs[q].read
        /\ procs[q].id \in DOMAIN remote
        /\ remote[procs[q].id] =
              UpdatePayload(Decode(procs[q].id, procs[q].read[1]), procs[q].arg, procs[q].id)

C29_Witness ==
  \E p, q \in 1..Len(procs) :
     /\ Raced(p, q) /\ procs[p].writeNo < procs[q].writeNo
     /\ LET id == procs[q].id
            first == UpdatePayload(Decode(id, procs[p].read[1]), procs[p].arg, id)
        IN /\ first # procs[p].read[1]
           /\ remote[id] # UpdatePayload(Decode(id, first), procs[q].arg, id)

\* the items of a batch whose iteration has ended
Processed(rr) == rr.i - 1 - Cardinality(rr.inflight)

\* C31: a batch given onProgress has called it once for every item it has
\* processed, in input order, the j-th call with (j, number of items); a
\* batch that processed all its items made its last call with (total, total)
C31_ProgressPerItem ==
  \A r \in Runners :
     (run[r].on /\ run[r].onProgress = "given") =>
        run[r].progress = [j \in 1..Processed(run[r]) |-> <<j, Len(run[r].items)>>]

\* C33: in every batch the errors list has failed entries, they are the ids
\* of items of the input in input order, and every processed item counts in
\* exactly one of succeeded and failed
C33_ErrorsMatchFailed ==
  \A r \in Runners :
     LET rr == run[r] IN
       rr.on =>
          /\ Len(rr.res.errors) = rr.res.failed
          /\ \E pos \in [1..Len(rr.res.errors) -> 1..Len(rr.items)] :
                /\ \A m \in 1..Len(rr.res.errors) : rr.items[pos[m]].id = rr.res.errors[m]
                /\ \A m, n \in 1..Len(rr.res.errors) : m < n => pos[m] < pos[n]
          /\ rr.res.succeeded + rr.res.failed = Processed(rr)

\* the keys of the stored object that carry the fields a partial names
NamedKeys(updates) ==
  (IF updates.id # Absent THEN {"todo_item_id"} ELSE {})
    \cup (IF updates.text # Absent THEN {"todo_item_text"} ELSE {})
    \cup (IF updates.completed # Absent \/ updates.todo_item_status # Absent
            THEN {"todo_item_status", "completed"} ELSE {})
    \cup {f \in {"emoji", "date", "time", "removed"} : updates[f] # Absent}

\* the storeObject of an update is accepted, and the record update read is
\* the one the store holds
UpdateStoreStep ==
  /\ call.op = "update" /\ call.phase = "write"
  /\ call'.phase = "done" /\ call'.outcome = "ok"
  /\ Lookup(remote, call.id) = call.read

\* C34: an update leaves every key of the stored object that its partial
\* does not name with the value it had before
C34_UpdateFrame ==
  [][UpdateStoreStep =>
       \A f \in DOMAIN BlankItem \ NamedKeys(call.arg) :
          remote'[call.id][f] = remote[call.id][f]]_vars

\* C35: once a remove(id) has completed, the key id is absent from the
\* store, whatever updates were pending
C35_RemoveStays ==
  \A p \in 1..Len(procs) :
     (procs[p].op = "remove" /\ procs[p].phase = "done" /\ procs[p].outcome = "ok")
        => procs[p].id \notin DOMAIN remote

\* C39: a mutation called while the hook is not connected or while its
\* module is missing throws at once: no write is issued, and the guard, its
\* timers, the store and every snapshot stay as they are
C39_OfflineMutation ==
  [][(Len(ui'.muts) = Len(ui.muts) + 1
        /\ (~ui.connected \/ ~ui'.muts[Len(ui'.muts)].present)) =>
       LET mu == ui'.muts[Len(ui'.muts)] IN
         /\ mu.pc = "done" /\ mu.outcome = "error" /\ ~mu.wrote
         /\ [ui' EXCEPT !.muts = ui.muts] = ui]_vars

C39_Witness ==
  /\ ~ui.connected /\ ~ui.guard /\ ui.timers = 0
  /\ \E m, n \in 1..Len(ui.muts) :
        /\ ui.muts[m].rejected /\ ui.muts[m].present /\ ui.muts[m].kind = "saveSettings"
        /\ ui.muts[n].rejected /\ ~ui.muts[n].present

\* C38: while connected exactly one change handler is attached, a
\* notification starts at most one reload, and one that arrives while the
\* hook is not connected starts none
C38_OneHandler ==
  /\ ui.connected => ui.handlers = 1
  /\ ui.last.started <= 1
  /\ (ui.last.kind # "none" /\ ~ui.last.connected) => ui.last.started = 0

InFlight == {r \in 1..Len(ui.reloads) : ~ui.reloads[r].done}

\* C36: while connected, isLoading is true whenever a reload is in flight
C36_LoadingWhileInFlight ==
  (ui.connected /\ InFlight # {}) => ui.isLoading

\* C37: a reload never replaces the value of a snapshot that a reload
\* started after it has already set
C37_NewestWins ==
  [][\A r \in InFlight, s \in Scopes :
       (/\ Loaders[ui.reloads[r].next] = s
        /\ ui'.reloads[r] # ui.reloads[r]
        /\ ui'.cached[s] # ui.cached[s]) =>
          \A b \in (r + 1)..Len(ui.reloads) : s \notin ui.reloads[b].updated]_vars
====
